---- MODULE Spec2Model ----
(***************************************************************************)
(* Retail store management MDP (apps/retail_store.ipynb): the truncated    *)
(* geometric demand, the StoreManagement gym environment, the baseline     *)
(* policies, the transition/reward kernel builder, PolicyIteration and     *)
(* QLearning.                                                              *)
(*                                                                         *)
(* Arithmetic.  The notebook computes with floats; the model computes the  *)
(* same expressions exactly, over integers:                                *)
(*   - money (h, c, c0, p, rewards) is counted in tenths;                  *)
(*   - a probability is a numerator over the denominator `den` of its pmf, *)
(*     so "sums to 1" reads "the numerators sum to den";                   *)
(*   - a uniform variate u in [0,1) is a numerator over USub*den, so that  *)
(*     u falls both on and strictly between the cumulative masses.         *)
(* The capacity M, a global of the notebook (M = 15), is drawn from        *)
(* 0..MaxM so that the nested loops stay small.                            *)
(***************************************************************************)
EXTENDS Integers, Sequences, FiniteSets, TLC

\* ------------------------------------------------------------------ bounds
MaxM == 2          \* capacities explored: M \in 0..MaxM
MaxQD == 5         \* q = qn/qd with 2 <= qd <= MaxQD, 0 < qn < qd
GeomQD == 2        \* the other cells run with the geometric pmfs of q = qn/qd, qd <= GeomQD
PDen == 2          \* denominator of the hand-written demand pmfs
USub == 2          \* uniform variates are multiples of 1/(USub*den)
MaxMPI == 1        \* capacities PolicyIteration is run with: M \in 0..MaxMPI
MaxMQL == 1        \* capacities QLearning is run with: M \in 0..MaxMQL
MaxLandmark == 3   \* checkpoints are in 0..MaxLandmark
MaxLands == 3      \* a checkpoint list has 1..MaxLands entries
MaxSteps == 2      \* calls of step between two resets
ActionSlack == 1   \* step is also called with actions in -ActionSlack..M+ActionSlack

\* ------------------------------------------------- problem parameters (tenths)
h == 3             \* maintenance cost per unit, 0.3
c == 5             \* ordering cost per unit, 0.5
c0 == 3            \* fixed delivery cost per command, 0.3
p == 10            \* selling price per unit, 1
GammaNum == 97     \* discount factor gamma = 0.97 = GammaNum/GammaDen
GammaDen == 100

\* ----------------------------------------------------------------- helpers
Min2(x, y) == IF x <= y THEN x ELSE y
Max2(x, y) == IF x >= y THEN x ELSE y
Min3(x, y, z) == Min2(x, Min2(y, z))

RECURSIVE Pow(_, _)
Pow(b, e) == IF e = 0 THEN 1 ELSE b * Pow(b, e - 1)

\* np.sum of f over the indices lo..hi
RECURSIVE SumRange(_, _, _)
SumRange(f, lo, hi) == IF lo > hi THEN 0 ELSE f[lo] + SumRange(f, lo + 1, hi)

\* np.cumsum: cumulative sums of an array indexed 0..n
CumSum(f, n) == [i \in 0..n |-> SumRange(f, 0, i)]

\* --------------------------------------------------------------- variables
VARIABLES
  M, pdem, den,                 \* capacity, demand pmf (numerators) and its denominator
  qn, qd, pm, pcP,              \* demand cell: q = qn/qd, comprehension index, position
  state, curr_step, ret, last,  \* StoreManagement fields, last return of step, last call
  K, avgR, ka, ks, kd, ns, reward, pcK,   \* kernel cell: tables, loop indices, locals
  Pi, V, newPi, newV, nIt, rounds, pcPI,  \* PolicyIteration locals, evaluate-and-improve rounds run
  impV, impQ, impPi, impNewV, impS,       \* Improve: argument V, locals Q, Pi, newV, loop index s
  Q, N, Landmarks, lk, lt, nUpd, report, pcQ   \* QLearning locals

paramVars == <<M, pdem, den>>
demVars == <<qn, qd, pm, pcP>>
envVars == <<state, curr_step, ret, last>>
kernVars == <<K, avgR, ka, ks, kd, ns, reward, pcK>>
piVars == <<Pi, V, newPi, newV, nIt, rounds, pcPI>>
impVars == <<impV, impQ, impPi, impNewV, impS>>
qlVars == <<Q, N, Landmarks, lk, lt, nUpd, report, pcQ>>
vars == <<paramVars, demVars, envVars, kernVars, piVars, impVars, qlVars>>

\* A cell that a specification does not run keeps these values.
DemIdle == qn = 0 /\ qd = 1 /\ pm = 0 /\ pcP = "idle"
EnvIdle == state = 0 /\ curr_step = -1 /\ ret = <<>> /\ last = [op |-> "none"]
KernIdle ==
  /\ K = <<>> /\ avgR = <<>> /\ ka = 0 /\ ks = 0 /\ kd = 0
  /\ ns = 0 /\ reward = 0 /\ pcK = "idle"
PiIdle ==
  /\ Pi = <<>> /\ V = <<>> /\ newPi = <<>> /\ newV = <<>> /\ nIt = 0 /\ rounds = 0
  /\ pcPI = "idle"
ImpIdle == impV = <<>> /\ impQ = <<>> /\ impPi = <<>> /\ impNewV = <<>> /\ impS = 0
QlIdle ==
  /\ Q = <<>> /\ N = <<>> /\ Landmarks = <<>> /\ lk = 0 /\ lt = 0
  /\ nUpd = 0 /\ report = <<>> /\ pcQ = "idle"

\* ------------------------------------------------------- demand distribution
\* q*(1-q)**m with q = n/d, as a numerator over d^(cap+1)
GeomTerm(cap, n, d, m) == n * Pow(d - n, m) * Pow(d, cap - m)

\* pdem = np.array([q*(1-q)**m for m in range(M+1)])
PdemRaw(cap, n, d) == [m \in 0..cap |-> GeomTerm(cap, n, d, m)]

\* faulty variant: the last entry is left as the comprehension computed it
PdemNoFix(f, cap, dn) == f

\* pdem[M] = pdem[M]+1-np.sum(pdem)
PdemFix(f, cap, dn) == [f EXCEPT ![cap] = f[cap] + dn - SumRange(f, 0, cap)]

\* the demand cell as a whole
Pdem(cap, n, d) == PdemFix(PdemRaw(cap, n, d), cap, Pow(d, cap + 1))

Qs == {x \in (1..MaxQD) \X (2..MaxQD) : x[1] < x[2]}

\* The demand pmfs a run starts from: the notebook's truncated geometric ones and
\* every pmf over 0..cap with denominator PDen (among them the concentrated ones).
DemandInputs(cap) ==
  {[f |-> Pdem(cap, x[1], x[2]), dn |-> Pow(x[2], cap + 1)] : x \in {y \in Qs : y[2] <= GeomQD}}
    \cup {[f |-> g, dn |-> PDen] : g \in {g \in [0..cap -> 0..PDen] : SumRange(g, 0, cap) = PDen}}

InitDemand ==
  /\ M \in 0..MaxM
  /\ \E x \in Qs : qn = x[1] /\ qd = x[2]
  /\ den = Pow(qd, M + 1)
  /\ pdem = <<>>
  /\ pm = 0
  /\ pcP = "line78"

\* one element of the comprehension of line 78
DemandTerm ==
  /\ pcP = "line78"
  /\ pm <= M
  /\ pdem' = [m \in 0..pm |-> IF m = pm THEN GeomTerm(M, qn, qd, m) ELSE pdem[m]]
  /\ pm' = pm + 1
  /\ UNCHANGED <<M, den, qn, qd, pcP>>

DemandBuilt ==
  /\ pcP = "line78"
  /\ pm = M + 1
  /\ pcP' = "line79"
  /\ UNCHANGED <<M, den, qn, qd, pm, pdem>>

DemandFix ==
  /\ pcP = "line79"
  /\ pdem' = PdemFix(pdem, M, den)
  /\ pcP' = "done"
  /\ UNCHANGED <<M, den, qn, qd, pm>>

InitPdem == InitDemand /\ EnvIdle /\ KernIdle /\ PiIdle /\ ImpIdle /\ QlIdle

NextPdem ==
  \/ DemandTerm /\ UNCHANGED <<envVars, kernVars, piVars, impVars, qlVars>>
  \/ DemandBuilt /\ UNCHANGED <<envVars, kernVars, piVars, impVars, qlVars>>
  \/ DemandFix /\ UNCHANGED <<envVars, kernVars, piVars, impVars, qlVars>>

SpecPdem == InitPdem /\ [][NextPdem]_vars

\* ------------------------------------------------------------------ sampling
IndexError == -1

\* the while loop of SimuDemand: u is a numerator over USub*dn, cp the cumulative sums
RECURSIVE SimuScan(_, _, _, _)
SimuScan(cp, cap, u, i) ==
  IF i > cap THEN IndexError
  ELSE IF u > USub * cp[i] THEN SimuScan(cp, cap, u, i + 1)
  ELSE i

SimuDemand(f, cap, u) == SimuScan(CumSum(f, cap), cap, u, 0)

\* rd.random(): the uniform variates in [0,1), as numerators over USub*dn
Uniforms(dn) == 0..(USub * dn - 1)

\* --------------------------------------------------------------- environment
\* faulty variant: the stock is not floored at zero
nextstateNoFloor(s, a, d, cap) == Min2(cap, s + a) - d

nextstate(s, a, d, cap) == Max2(0, Min2(cap, s + a) - d)

\* faulty variant: the delivery cost is charged on an empty command too
nextrewardAlwaysDelivery(s, a, d, cap) == -c * a - h * s + p * Min3(cap, d, s + a) - c0

nextreward(s, a, d, cap) ==
  LET rew == -c * a - h * s + p * Min3(cap, d, s + a)
  IN IF a > 0 THEN rew - c0 ELSE rew

\* StoreManagement(FirstState)
InitEnv ==
  /\ state \in 0..M
  /\ curr_step = -1
  /\ ret = <<>>
  /\ last = [op |-> "init"]

Construct(FirstState) ==
  /\ state' = FirstState
  /\ curr_step' = -1
  /\ ret' = <<>>
  /\ last' = [op |-> "init"]
  /\ UNCHANGED paramVars

\* Demand = SimuDemand(self.Demand_Distribution), for some uniform variate
DemandDraws == {SimuDemand(pdem, M, u) : u \in Uniforms(den)}

\* the body of StoreManagement.step, called with `action` by the caller `pol`
StepEffect(action, Demand, pol) ==
  LET rew == nextreward(state, action, Demand, M)
      nxt == nextstate(state, action, Demand, M)
  IN /\ curr_step' = curr_step + 1
     /\ state' = nxt
     /\ ret' = <<nxt, rew, FALSE, {}>>
     /\ last' = [op |-> "step", action |-> action, Demand |-> Demand,
                 s |-> state, step |-> curr_step, pol |-> pol]
     /\ UNCHANGED paramVars

\* a call of step by the simulation cells, which run MaxSteps steps of a trajectory
StepBody(action, Demand, pol) ==
  /\ curr_step < MaxSteps - 1
  /\ StepEffect(action, Demand, pol)

\* env.step(action) with any integer action: the range is never validated
Step(action, Demand) == StepBody(action, Demand, "none")

\* faulty variant: reset forgets the step counter
ResetKeepsCounter(InitialStock) ==
  /\ state' = InitialStock
  /\ ret' = <<>>
  /\ last' = [op |-> "reset", InitialStock |-> InitialStock, s |-> state, step |-> curr_step]
  /\ UNCHANGED <<paramVars, curr_step>>

Reset(InitialStock) ==
  /\ curr_step' = -1
  /\ state' = InitialStock
  /\ ret' = <<>>
  /\ last' = [op |-> "reset", InitialStock |-> InitialStock, s |-> state, step |-> curr_step]
  /\ UNCHANGED paramVars

\* print("a simulated demand is ",SimuDemand(pdem))
Sample(u) ==
  /\ last.op \in {"init", "sample"}
  /\ last' = [op |-> "sample", u |-> u, Demand |-> SimuDemand(pdem, M, u)]
  /\ UNCHANGED <<paramVars, state, curr_step, ret>>

\* ------------------------------------------------------------------ policies
PiConstant_c == 3
PiThreshold_m1 == 4
PiThreshold_m2 == 10

\* rd.sample(range(M+1-s),1): x[0] is any element of the range
PiUniformDraws(s, cap) == 0..(cap - s)
PiUniform(s, cap, x) == s + x

PiConstant(s, cap) == Min2(PiConstant_c, cap - s)

PiThreshold(s) == IF s <= PiThreshold_m1 THEN PiThreshold_m2 - s ELSE 0

\* one turn of the loop of SimulateTrajectory: action=Pi(env.state); env.step(action)
SimulateUniform(x, Demand) == StepBody(PiUniform(state, M, x), Demand, "PiUniform")
SimulateConstant(Demand) == StepBody(PiConstant(state, M), Demand, "PiConstant")
SimulateThreshold(Demand) == StepBody(PiThreshold(state), Demand, "PiThreshold")

ActionInputs == (-ActionSlack)..(M + ActionSlack)

InitParams ==
  /\ M \in 0..MaxM
  /\ \E x \in DemandInputs(M) : pdem = x.f /\ den = x.dn

Init == InitParams /\ InitEnv /\ DemIdle /\ KernIdle /\ PiIdle /\ ImpIdle /\ QlIdle

Next ==
  \/ \E a \in ActionInputs, d \in DemandDraws :
       Step(a, d) /\ UNCHANGED <<demVars, kernVars, piVars, impVars, qlVars>>
  \/ \E s0 \in 0..M : Reset(s0) /\ UNCHANGED <<demVars, kernVars, piVars, impVars, qlVars>>
  \/ \E s0 \in 0..M : Construct(s0) /\ UNCHANGED <<demVars, kernVars, piVars, impVars, qlVars>>
  \/ \E u \in Uniforms(den) : Sample(u) /\ UNCHANGED <<demVars, kernVars, piVars, impVars, qlVars>>
  \/ \E x \in PiUniformDraws(state, M), d \in DemandDraws :
       SimulateUniform(x, d) /\ UNCHANGED <<demVars, kernVars, piVars, impVars, qlVars>>
  \/ \E d \in DemandDraws :
       SimulateConstant(d) /\ UNCHANGED <<demVars, kernVars, piVars, impVars, qlVars>>
  \/ \E d \in DemandDraws :
       SimulateThreshold(d) /\ UNCHANGED <<demVars, kernVars, piVars, impVars, qlVars>>

Spec == Init /\ [][Next]_vars

\* ------------------------------------------------------------ kernel builder
\* ns = max(0,min(M,s+a) -d), written out in the loop
\* faulty variant: the capacity is applied after the demand is served
BuilderNextStateLate(s, a, d, cap) == Max2(0, Min2(cap, s + a - d))

BuilderNextState(s, a, d, cap) == Max2(0, Min2(cap, s + a) - d)

\* faulty variant: the demand is credited as sold whatever the stock is
BuilderRewardSellsDemand(s, a, d, cap) ==
  LET r == -c * a - h * s + p * Min2(cap, d)
  IN IF a > 0 THEN r - c0 ELSE r

\* reward = -c*a - h*s+p*min(M,d,s+a); if (a>0): reward = reward - c0
BuilderReward(s, a, d, cap) ==
  LET r == -c * a - h * s + p * Min3(cap, d, s + a)
  IN IF a > 0 THEN r - c0 ELSE r

\* faulty variant: the mass is assigned, not accumulated
KAssign(Kt, s, n, a, mass) == [Kt EXCEPT ![<<s, n, a>>] = mass]

\* K[s,ns,a] += pdem[d]
KAccumulate(Kt, s, n, a, mass) == [Kt EXCEPT ![<<s, n, a>>] = @ + mass]

\* avgR[s,a] += pdem[d] * reward      (tenths, as numerators over den)
AvgRAccumulate(Rt, s, a, mass, r) == [Rt EXCEPT ![<<s, a>>] = @ + mass * r]

\* K = np.zeros((M+1,M+1,M+1)); avgR = np.zeros((M+1,M+1)); the loops start
InitKernel ==
  /\ K = [x \in (0..M) \X (0..M) \X (0..M) |-> 0]
  /\ avgR = [x \in (0..M) \X (0..M) |-> 0]
  /\ ka = 0 /\ ks = 0 /\ kd = 0
  /\ ns = 0 /\ reward = 0
  /\ pcK = "body"

\* the body of the innermost loop, for the current (a, s, d)
KernelBody ==
  /\ pcK = "body"
  /\ ns' = BuilderNextState(ks, ka, kd, M)
  /\ reward' = BuilderReward(ks, ka, kd, M)
  /\ K' = KAccumulate(K, ks, ns', ka, pdem[kd])
  /\ avgR' = AvgRAccumulate(avgR, ks, ka, pdem[kd], reward')
  /\ pcK' = "next"
  /\ UNCHANGED <<paramVars, ka, ks, kd>>

\* for a in range(M+1): for s in range(M+1): for d in range(M+1): the next triple
KernelNext ==
  /\ pcK = "next"
  /\ \/ kd < M /\ kd' = kd + 1 /\ UNCHANGED <<ka, ks>> /\ pcK' = "body"
     \/ kd = M /\ ks < M /\ kd' = 0 /\ ks' = ks + 1 /\ UNCHANGED ka /\ pcK' = "body"
     \/ kd = M /\ ks = M /\ ka < M /\ kd' = 0 /\ ks' = 0 /\ ka' = ka + 1 /\ pcK' = "body"
     \/ kd = M /\ ks = M /\ ka = M /\ UNCHANGED <<ka, ks, kd>> /\ pcK' = "done"
  /\ UNCHANGED <<paramVars, K, avgR, ns, reward>>

InitK == InitParams /\ InitKernel /\ DemIdle /\ EnvIdle /\ PiIdle /\ ImpIdle /\ QlIdle

NextK ==
  \/ KernelBody /\ UNCHANGED <<demVars, envVars, piVars, impVars, qlVars>>
  \/ KernelNext /\ UNCHANGED <<demVars, envVars, piVars, impVars, qlVars>>

SpecK == InitK /\ [][NextK]_vars

\* the kernel cell as a whole: the tables the loops end with
RECURSIVE KernelRun(_, _, _, _, _, _)
KernelRun(f, cap, Kt, Rt, a, sd) ==
  \* sd = s*(cap+1) + d runs over the two inner loops
  IF a > cap THEN [K |-> Kt, avgR |-> Rt]
  ELSE IF sd >= (cap + 1) * (cap + 1) THEN KernelRun(f, cap, Kt, Rt, a + 1, 0)
  ELSE LET s == sd \div (cap + 1)
           d == sd % (cap + 1)
           n == BuilderNextState(s, a, d, cap)
           r == BuilderReward(s, a, d, cap)
       IN KernelRun(f, cap, KAccumulate(Kt, s, n, a, f[d]),
                    AvgRAccumulate(Rt, s, a, f[d], r), a, sd + 1)

Kernel(f, cap) ==
  KernelRun(f, cap, [x \in (0..cap) \X (0..cap) \X (0..cap) |-> 0],
            [x \in (0..cap) \X (0..cap) |-> 0], 0, 0)

\* ------------------------------------------------- evaluation and improvement
\* A value vector is [num |-> numerators indexed 0..M, dn |-> their common
\* denominator > 0], in tenths.  K and avgR are the finished tables of the kernel
\* cell.
Zeros(cap) == [num |-> [s \in 0..cap |-> 0], dn |-> 1]

\* the sequence sq without its i-th element
Drop(sq, i) == [j \in 1..(Len(sq) - 1) |-> IF j < i THEN sq[j] ELSE sq[j + 1]]

\* determinant of the square matrix A restricted to the index lists rows and cols
RECURSIVE Det(_, _, _)
Det(A, rows, cols) ==
  IF Len(rows) = 0 THEN 1
  ELSE LET term(j) == (IF j % 2 = 1 THEN 1 ELSE -1) * A[<<rows[1], cols[j]>>]
                        * Det(A, Tail(rows), Drop(cols, j))
           sum[j \in 0..Len(cols)] == IF j = 0 THEN 0 ELSE sum[j - 1] + term(j)
       IN sum[Len(cols)]

Indices(cap) == [i \in 1..(cap + 1) |-> i - 1]

\* GammaDen*den*(I - gamma*KPi), KPi[s,:] = K[s,:,Pi(s)]
EvalMatrix(Kt, PiArr, cap, dn) ==
  [x \in (0..cap) \X (0..cap) |->
     (IF x[1] = x[2] THEN GammaDen * dn ELSE 0) - GammaNum * Kt[<<x[1], x[2], PiArr[x[1]]>>]]

\* EvaluatePolicy(Pi): V = (I - gamma*KPi)^-1 avgRPi, solved by Cramer's rule
EvaluatePolicy(Kt, Rt, PiArr, cap, dn) ==
  LET A == EvalMatrix(Kt, PiArr, cap, dn)
      b == [s \in 0..cap |-> GammaDen * Rt[<<s, PiArr[s]>>]]
      As(s) == [x \in (0..cap) \X (0..cap) |-> IF x[2] = s THEN b[x[1]] ELSE A[x]]
  IN [num |-> [s \in 0..cap |-> Det(As(s), Indices(cap), Indices(cap))],
      dn |-> Det(A, Indices(cap), Indices(cap))]

\* Q[s,a]=avgR[s,a]+gamma*np.sum([K[s,ns,a]*V[ns] for ns in range(M+1)]),
\* as a numerator over dn*GammaDen*Vv.dn
QValue(Kt, Rt, Vv, cap, s, a) ==
  Rt[<<s, a>>] * GammaDen * Vv.dn
    + GammaNum * SumRange([n \in 0..cap |-> Kt[<<s, n, a>>] * Vv.num[n]], 0, cap)

\* faulty variant: of the actions attaining the maximum, the highest index
ArgMaxLast(row, cap) ==
  CHOOSE a \in 0..cap :
    /\ \A b \in 0..cap : row[b] <= row[a]
    /\ \A b \in (a + 1)..cap : row[b] < row[a]

\* np.argmax(row): the first index attaining the maximum
ArgMax(row, cap) ==
  CHOOSE a \in 0..cap :
    /\ \A b \in 0..cap : row[b] <= row[a]
    /\ \A b \in 0..(a - 1) : row[b] < row[a]

\* the row Q[s,:] that one turn of the loop over s fills
QRow(Kt, Rt, Vv, cap, s) == [a \in 0..cap |-> QValue(Kt, Rt, Vv, cap, s, a)]

\* Improve(V) as a whole: Pi = greedy(V) and newV[s] = Q[s,Pi[s]]
Improve(Kt, Rt, Vv, cap, dn) ==
  LET Qt == [s \in 0..cap |-> QRow(Kt, Rt, Vv, cap, s)]
      pi == [s \in 0..cap |-> ArgMax(Qt[s], cap)]
  IN [Pi |-> pi,
      newV |-> [num |-> [s \in 0..cap |-> Qt[s][pi[s]]], dn |-> dn * GammaDen * Vv.dn]]

\* Improve is called with Vv: Pi, newV and Q are zero arrays, the loop over s starts
ImproveCall(Vv) ==
  /\ impV' = Vv
  /\ impQ' = [s \in 0..M |-> [a \in 0..M |-> 0]]
  /\ impPi' = [s \in 0..M |-> 0]
  /\ impNewV' = [s \in 0..M |-> 0]
  /\ impS' = 0

\* one turn of the loop over s: the row Q[s,:], pi = np.argmax(Q[s,:]), Pi[s], newV[s]
ImproveState ==
  /\ impS <= M
  /\ LET row == QRow(K, avgR, impV, M, impS)
         pi == ArgMax(row, M)
     IN /\ impQ' = [impQ EXCEPT ![impS] = row]
        /\ impPi' = [impPi EXCEPT ![impS] = pi]
        /\ impNewV' = [impNewV EXCEPT ![impS] = row[pi]]
  /\ impS' = impS + 1
  /\ UNCHANGED impV

\* return Pi,newV   (newV numerators are over den*GammaDen*impV.dn)
ImproveResult == [Pi |-> impPi, newV |-> [num |-> impNewV, dn |-> den * GammaDen * impV.dn]]

\* ---------------------------------------------------------- PolicyIteration
\* the cells above have run: K and avgR are the kernel of pdem
InitTables ==
  /\ M \in 0..MaxMPI
  /\ \E x \in DemandInputs(M) : pdem = x.f /\ den = x.dn
  /\ K = Kernel(pdem, M).K
  /\ avgR = Kernel(pdem, M).avgR
  /\ ka = M /\ ks = M /\ kd = M
  /\ ns = BuilderNextState(M, M, M, M) /\ reward = BuilderReward(M, M, M, M)
  /\ pcK = "done"

\* Pi = np.zeros(M+1); V = np.zeros(M+1); newPi = np.random.randint(M+1,size=M+1); nIt = 0
InitPolicyIteration ==
  /\ Pi = [s \in 0..M |-> 0]
  /\ V = Zeros(M)
  /\ newPi \in [0..M -> 0..M]
  /\ newV = <<>>
  /\ nIt = 0
  /\ rounds = 0
  /\ pcPI = "while"

\* while (np.linalg.norm(Pi-newPi)>0.1): nIt +=1; Pi = np.copy(newPi)
\* (two integer arrays are at distance 0 or at least 1)
PIEnter ==
  /\ pcPI = "while"
  /\ Pi # newPi
  /\ nIt' = nIt + 1
  /\ Pi' = newPi
  /\ pcPI' = "evaluate"
  /\ UNCHANGED <<paramVars, kernVars, impVars, V, newPi, newV, rounds>>

\* the marked step, completed as Improve(EvaluatePolicy(Pi)): the evaluation and the call
PIEvaluate ==
  /\ pcPI = "evaluate"
  /\ ImproveCall(EvaluatePolicy(K, avgR, Pi, M, den))
  /\ pcPI' = "improve"
  /\ UNCHANGED <<paramVars, kernVars, Pi, V, newPi, newV, nIt, rounds>>

PIImproveState ==
  /\ pcPI = "improve"
  /\ ImproveState
  /\ UNCHANGED <<paramVars, kernVars, piVars>>

\* newPi,newV = what Improve returns
PIImproveReturn ==
  /\ pcPI = "improve"
  /\ impS = M + 1
  /\ newPi' = ImproveResult.Pi
  /\ newV' = ImproveResult.newV
  /\ rounds' = rounds + 1
  /\ pcPI' = "while"
  /\ UNCHANGED <<paramVars, kernVars, impVars, Pi, V, nIt>>

\* return Pi,V,nIt
PIReturn ==
  /\ pcPI = "while"
  /\ Pi = newPi
  /\ pcPI' = "return"
  /\ UNCHANGED <<paramVars, kernVars, impVars, Pi, V, newPi, newV, nIt, rounds>>

InitPI == InitTables /\ InitPolicyIteration /\ ImpIdle /\ DemIdle /\ EnvIdle /\ QlIdle

NextPI ==
  \/ PIEnter /\ UNCHANGED <<demVars, envVars, qlVars>>
  \/ PIEvaluate /\ UNCHANGED <<demVars, envVars, qlVars>>
  \/ PIImproveState /\ UNCHANGED <<demVars, envVars, qlVars>>
  \/ PIImproveReturn /\ UNCHANGED <<demVars, envVars, qlVars>>
  \/ PIReturn /\ UNCHANGED <<demVars, envVars, qlVars>>

SpecPI == InitPI /\ [][NextPI]_vars

\* ----------------------------------------------------------------- QLearning
\* Q values are fixed-point numbers, QScale units to a tenth, and the step size
\* alpha = 1/sqrt(1+n) is a number of thousandths (AlphaScale), both rounded down.
QScale == 100
AlphaScale == 1000

ISqrt(x) == CHOOSE r \in 0..AlphaScale : r * r <= x /\ x < (r + 1) * (r + 1)

\* alpha = 1/((1+N[S,A])**0.5)
Alpha(n) == ISqrt((AlphaScale * AlphaScale) \div (1 + n))

\* max(Q[nS, :])
MaxRow(row, cap) == row[ArgMax(row, cap)]

\* the sum of all visit counts N[s,a]
SumN(Nt, cap) == SumRange([s \in 0..cap |-> SumRange(Nt[s], 0, cap)], 0, cap)

\* 10*np.random.rand(1+M, 1+M): entries in [0,10), here 0 or 2.5
QInits == [0..M -> [0..M -> {0, 25 * QScale}]]

\* sorted checkpoint lists that start at 0
LandmarkInputs ==
  {L \in UNION {[1..n -> 0..MaxLandmark] : n \in 1..MaxLands} :
     L[1] = 0 /\ \A i \in 1..(Len(L) - 1) : L[i] <= L[i + 1]}

\* the setup of QLearning and the head of its first block
InitQLearning ==
  /\ Landmarks \in LandmarkInputs
  /\ Q \in QInits
  /\ N = [s \in 0..M |-> [a \in 0..M |-> 0]]
  /\ state \in 0..M /\ curr_step = -1 /\ ret = <<>> /\ last = [op |-> "init"]
  /\ lk = 0
  /\ lt = 1
  /\ nUpd = 0
  /\ report = <<>>
  /\ pcQ = "for_k"

\* for k in range(nbLands-1): t starts at Landmarks[k]+1   (Landmarks[k] is Landmarks[lk+1] here)
QLBlock ==
  /\ pcQ = "for_k"
  /\ lk < Len(Landmarks) - 1
  /\ lt' = Landmarks[lk + 1] + 1
  /\ pcQ' = "for_t"
  /\ UNCHANGED <<paramVars, envVars, Q, N, Landmarks, lk, nUpd, report>>

\* one turn of the loop over t: epsilon-greedy action, visit count, step, update of Q
QLStep(Arand, greedy, Demand) ==
  /\ pcQ = "for_t"
  /\ lt < Landmarks[lk + 2]
  /\ LET S == state
         A == IF greedy THEN ArgMax(Q[S], M) ELSE Arand
         n1 == N[S][A] + 1
         nS == nextstate(S, A, Demand, M)
         rew == nextreward(S, A, Demand, M)
         delta == rew * QScale + (GammaNum * MaxRow(Q[nS], M)) \div GammaDen - Q[S][A]
     IN /\ N' = [N EXCEPT ![S][A] = n1]
        /\ StepEffect(A, Demand, "QLearning")
        /\ Q' = [Q EXCEPT ![S][A] = @ + (Alpha(n1) * delta) \div AlphaScale]
  /\ nUpd' = nUpd + 1
  /\ lt' = lt + 1
  /\ UNCHANGED <<Landmarks, lk, report, pcQ>>

\* after the loop over t: the greedy policy and the line
\* "After T= Landmarks[k+1] iterations ... the policy is Pi"
QLReport ==
  /\ pcQ = "for_t"
  /\ lt >= Landmarks[lk + 2]
  /\ report' = Append(report, [T |-> Landmarks[lk + 2],
                               Pi |-> [s \in 0..M |-> ArgMax(Q[s], M)]])
  /\ lk' = lk + 1
  /\ pcQ' = "printed"
  /\ UNCHANGED <<paramVars, envVars, Q, N, Landmarks, lt, nUpd>>

QLNextBlock ==
  /\ pcQ = "printed"
  /\ pcQ' = "for_k"
  /\ UNCHANGED <<paramVars, envVars, Q, N, Landmarks, lk, lt, nUpd, report>>

\* return Pi,Q: Pi is bound only if a block has run
QLReturn ==
  /\ pcQ = "for_k"
  /\ lk >= Len(Landmarks) - 1
  /\ pcQ' = IF Len(report) = 0 THEN "UnboundLocalError" ELSE "return"
  /\ UNCHANGED <<paramVars, envVars, Q, N, Landmarks, lk, lt, nUpd, report>>

InitQL ==
  /\ M \in 0..MaxMQL
  /\ \E x \in DemandInputs(M) : pdem = x.f /\ den = x.dn
  /\ InitQLearning /\ DemIdle /\ KernIdle /\ PiIdle /\ ImpIdle

NextQL ==
  \/ QLBlock /\ UNCHANGED <<demVars, kernVars, piVars, impVars>>
  \/ \E A \in 0..M, g \in BOOLEAN, d \in DemandDraws :
       QLStep(A, g, d) /\ UNCHANGED <<demVars, kernVars, piVars, impVars>>
  \/ QLReport /\ UNCHANGED <<demVars, kernVars, piVars, impVars>>
  \/ QLNextBlock /\ UNCHANGED <<demVars, kernVars, piVars, impVars>>
  \/ QLReturn /\ UNCHANGED <<demVars, kernVars, piVars, impVars>>

SpecQL == InitQL /\ [][NextQL]_vars

\* ------------------------------------------------------------ ValueIteration
\* epsilon = 1e-3 is 1/EpsInv of a tenth
EpsInv == 100

\* 10*np.random.rand(M+1), and the vectors later turns hand to Improve: numerators
\* 0, 25 or 800 over the denominator 1 or GammaNum
VInputs == {[num |-> f, dn |-> d] : f \in [0..M -> {0, 25, 800}], d \in {1, GammaNum}}

\* np.linalg.norm(V-newV)>epsilon, for V = a/b and newV = c/d (tenths)
NormExceeds(Va, Vb, cap) ==
  LET x == [s \in 0..cap |-> (Va.num[s] * Vb.dn - Vb.num[s] * Va.dn)
                               * (Va.num[s] * Vb.dn - Vb.num[s] * Va.dn)]
      bd == Va.dn * Vb.dn
  IN SumRange(x, 0, cap) > (bd * bd) \div (EpsInv * EpsInv)

\* V = np.zeros(M+1); Pi = np.zeros(M+1); newV = 10*np.random.rand(M+1); nIt = 0,
\* once the cell building K and avgR has run
VIStart ==
  /\ pcK = "done"
  /\ pcPI = "idle"
  /\ V' = Zeros(M)
  /\ Pi' = [s \in 0..M |-> 0]
  /\ newV' \in VInputs
  /\ nIt' = 0
  /\ pcPI' = "while"
  /\ UNCHANGED <<paramVars, kernVars, impVars, newPi, rounds>>

\* while (np.linalg.norm(V-newV)>epsilon): nIt +=1; V = np.copy(newV); Improve(V) is called
VIEnter ==
  /\ pcPI = "while"
  /\ NormExceeds(V, newV, M)
  /\ nIt' = nIt + 1
  /\ V' = newV
  /\ ImproveCall(V')
  /\ pcPI' = "improve"
  /\ UNCHANGED <<paramVars, kernVars, Pi, newPi, newV, rounds>>

VIImproveState ==
  /\ pcPI = "improve"
  /\ ImproveState
  /\ UNCHANGED <<paramVars, kernVars, piVars>>

\* Pi,newV = Improve(V): the first turn of the loop ends here; the vectors of the
\* later turns are among VInputs
VIAssign ==
  /\ pcPI = "improve"
  /\ impS = M + 1
  /\ Pi' = ImproveResult.Pi
  /\ newV' = ImproveResult.newV
  /\ pcPI' = "turned"
  /\ UNCHANGED <<paramVars, kernVars, impVars, V, newPi, nIt, rounds>>

\* return Pi,newV,nIt
VIReturn ==
  /\ pcPI = "while"
  /\ ~NormExceeds(V, newV, M)
  /\ pcPI' = "return"
  /\ UNCHANGED <<paramVars, kernVars, impVars, Pi, V, newPi, newV, nIt, rounds>>

InitVI == InitParams /\ InitKernel /\ DemIdle /\ EnvIdle /\ PiIdle /\ ImpIdle /\ QlIdle

NextVI ==
  \/ KernelBody /\ UNCHANGED <<demVars, envVars, piVars, impVars, qlVars>>
  \/ KernelNext /\ UNCHANGED <<demVars, envVars, piVars, impVars, qlVars>>
  \/ VIStart /\ UNCHANGED <<demVars, envVars, qlVars>>
  \/ VIEnter /\ UNCHANGED <<demVars, envVars, qlVars>>
  \/ VIImproveState /\ UNCHANGED <<demVars, envVars, qlVars>>
  \/ VIAssign /\ UNCHANGED <<demVars, envVars, qlVars>>
  \/ VIReturn /\ UNCHANGED <<demVars, envVars, qlVars>>

SpecVI == InitVI /\ [][NextVI]_vars

\* ============================================================ claims, Spec
\* C1: whatever integer actions step is called with and whatever demands are
\* drawn, the stock of the environment is an integer in 0..M.
StockInRange == state \in 0..M

\* C1 witness: step was called with an action outside 0..M in each direction.
StockClippedBelow == last.op = "step" /\ last.action < 0 /\ last.s + last.action < 0
StockInRangeWitness ==
  last.op = "step" /\ last.action > M /\ last.s > 0 /\ last.Demand < M /\ state \in 1..M

\* C2: step(action) in stock s with demand d returns
\* (max(0, min(M, s+action) - d), -c*action - h*s + p*min(M, d, s+action) - c0*[action>0],
\* False, {}), the reward being computed from the stock s held before the
\* transition, and stores the first component as the new stock.
StepContract ==
  last.op = "step" =>
    LET s == last.s
        a == last.action
        d == last.Demand
        fee == IF a > 0 THEN c0 ELSE 0
    IN /\ ret = <<Max2(0, Min2(M, s + a) - d),
                  -c * a - h * s + p * Min3(M, d, s + a) - fee, FALSE, {}>>
       /\ state = ret[1]
       /\ curr_step = last.step + 1

\* C2 witness: a step that changed the stock, so that the reward computed from the
\* new stock would differ from the one returned.
StepContractWitness ==
  /\ last.op = "step" /\ last.action > 0 /\ last.s > 0 /\ state # last.s
  /\ ret[2] # -c * last.action - h * state + p * Min3(M, last.Demand, state + last.action) - c0

\* C3 (as stated): reset(initial_stock) sets the stock to initial_stock and the
\* step counter curr_step to zero.
ResetCounterZero ==
  last.op = "reset" => state = last.InitialStock /\ curr_step = 0

\* C3 (amended): reset(initial_stock), after any number of steps, sets the stock to
\* initial_stock and curr_step to -1, the value the constructor gives it; the
\* first step after it brings curr_step to 0.
ResetContract ==
  /\ last.op = "reset" => state = last.InitialStock /\ curr_step = -1
  /\ last.op = "init" => curr_step = -1
  /\ last.op = "step" /\ last.step = -1 => curr_step = 0

\* C3 witness: reset called after two steps, with a stock other than the current one.
ResetContractWitness ==
  last.op = "reset" /\ last.step >= 1 /\ last.s # last.InitialStock /\ state = last.InitialStock

\* C6: SimuDemand returns the smallest index whose cumulative mass strictly
\* exceeds the uniform variate u, an index of 0..M with non-zero probability.
SampleIsInverseCdf ==
  last.op = "sample" =>
    LET cp == CumSum(pdem, M)
        i == last.Demand
    IN /\ i \in 0..M
       /\ USub * cp[i] > last.u
       /\ \A j \in 0..(i - 1) : USub * cp[j] <= last.u
       /\ pdem[i] > 0

\* C7: every baseline policy maps a stock of 0..M to an action of 0..M; with
\* M = 0 the action is 0 and the reward is 0.
PolicyTotal ==
  last.op = "step" /\ last.pol # "none" =>
    /\ last.action \in 0..M
    /\ M = 0 => last.action = 0 /\ ret[2] = 0

\* C12: PiUniform maps every stock s of 0..M to an order quantity of {0..M-s}, so
\* that stock plus order never exceeds the capacity M.
PiUniformWithinCapacity ==
  last.op = "step" /\ last.pol = "PiUniform" =>
    /\ last.s \in 0..M
    /\ last.action \in 0..(M - last.s)
    /\ last.s + last.action <= M

\* ======================================================== claims, SpecPdem
\* C10: the demand pmf has length M+1, entry m is q*(1-q)^m for m < M, the last
\* entry is the tail mass (1-q)^M, no entry is negative and the entries sum to 1
\* (q = qn/qd, the entries being numerators over den = qd^(M+1)).
PdemContract ==
  pcP = "done" =>
    /\ DOMAIN pdem = 0..M
    /\ \A m \in 0..(M - 1) : pdem[m] * Pow(qd, m + 1) = qn * Pow(qd - qn, m) * den
    /\ pdem[M] * Pow(qd, M) = Pow(qd - qn, M) * den
    /\ \A m \in 0..M : pdem[m] >= 0
    /\ SumRange(pdem, 0, M) = den

\* C10 witness: a finished pmf whose last entry took up the tail and exceeds the
\* entry before it.
PdemContractWitness == pcP = "done" /\ M >= 2 /\ pdem[M] > pdem[M - 1]

\* =========================================================== claims, SpecK
\* the mass K[s, ., a] puts on all next states
KRowSum(s, a) == SumRange([n \in 0..M |-> K[<<s, n, a>>]], 0, M)

\* C4: once the builder has run (with a pmf summing to 1), every K[s, ., a] is a
\* probability distribution: its entries are non-negative and sum to 1.
KernelStochastic ==
  pcK = "done" =>
    /\ SumRange(pdem, 0, M) = den
    /\ \A s \in 0..M, a \in 0..M : KRowSum(s, a) = den
    /\ \A x \in DOMAIN K : K[x] >= 0

\* C4 witness: a finished kernel with an entry strictly between 0 and 1 that
\* gathers the mass of more than one demand.
KernelStochasticWitness ==
  /\ pcK = "done" /\ M >= 2
  /\ \E d1 \in 0..M, d2 \in 0..M : d1 < d2 /\ pdem[d1] > 0 /\ pdem[d2] > 0
       /\ K[<<1, 0, 0>>] = SumRange(pdem, 1, M) /\ K[<<1, 0, 0>>] > pdem[d2]
       /\ K[<<1, 0, 0>>] < den

\* the pdem mass of the demands d with nextstate(s,a,d,M) = n
MassTo(s, a, n) ==
  SumRange([d \in 0..M |-> IF nextstate(s, a, d, M) = n THEN pdem[d] ELSE 0], 0, M)

\* C5: the builder and the environment describe the same dynamics: the next state
\* and reward the loop computes for (s, a, d) are nextstate and nextreward of step;
\* K[s,s',a] is the pdem mass of the demands leading from s to s' and avgR[s,a] the
\* pdem-weighted sum of nextreward; with the pmf concentrated on d0,
\* K[s, nextstate(s,a,d0,M), a] = 1 and every other entry is 0.
KernelMatchesEnv ==
  /\ pcK = "next" =>
       /\ ns = nextstate(ks, ka, kd, M)
       /\ reward = nextreward(ks, ka, kd, M)
  /\ pcK = "done" =>
       /\ \A s \in 0..M, a \in 0..M, n \in 0..M : K[<<s, n, a>>] = MassTo(s, a, n)
       /\ \A s \in 0..M, a \in 0..M :
            avgR[<<s, a>>] =
              SumRange([d \in 0..M |-> pdem[d] * nextreward(s, a, d, M)], 0, M)
       /\ \A d0 \in 0..M : pdem[d0] = den =>
            \A s \in 0..M, a \in 0..M, n \in 0..M :
              K[<<s, n, a>>] = IF n = nextstate(s, a, d0, M) THEN den ELSE 0
       /\ M = 2 /\ pdem[0] = den =>
            \A s \in 0..M, a \in 0..M : K[<<s, Min2(M, s + a), a>>] = den

\* C5 witness: the kernel of the scenario M = 2 with demand always 0, and a kernel
\* of a pmf concentrated on a positive demand.
KernelMatchesEnvWitness ==
  /\ pcK = "done" /\ M = 2 /\ pdem[0] = den
  /\ K[<<1, 2, 1>>] = den /\ K[<<1, 1, 1>>] = 0 /\ K[<<2, 2, 2>>] = den
KernelConcentratedWitness ==
  /\ pcK = "done" /\ M = 2 /\ pdem[1] = den
  /\ K[<<1, 1, 1>>] = den /\ K[<<1, 2, 1>>] = 0

\* the sales income in a reward r of the pair (s, a): r plus the order, delivery
\* and maintenance costs (tenths)
SalesIncome(r, s, a) == r + c * a + h * s + (IF a > 0 THEN c0 ELSE 0)

\* C13: stock conservation in one step, for every stock s, action a and demand d
\* of 0..M: the units sold that the reward credits are between 0 and
\* min(M, s+a), the stock after delivery capped at capacity, and units sold plus
\* next stock are min(M, s+a) exactly; the bikes that disappear are the excess of
\* s+a over M. It holds of the pair (ns, reward) of every turn of the builder's
\* loops and of nextstate / nextreward.
StockConserved ==
  /\ pcK = "next" =>
       LET income == SalesIncome(reward, ks, ka)
           sold == income \div p
           onHand == Min2(M, ks + ka)
       IN /\ income = p * sold
          /\ sold = Min3(M, kd, ks + ka)
          /\ 0 <= sold /\ sold <= onHand /\ sold <= kd
          /\ ns >= 0
          /\ sold + ns = onHand
          /\ (ks + ka) - (sold + ns) = Max2(0, ks + ka - M)
  /\ \A s \in 0..M, a \in 0..M, d \in 0..M :
       LET income == SalesIncome(nextreward(s, a, d, M), s, a)
       IN /\ income % p = 0
          /\ income \div p \in 0..Min2(M, s + a)
          /\ income \div p + nextstate(s, a, d, M) = Min2(M, s + a)

\* C13 witness: a turn of the loops where the order overfills the store, the
\* excess is lost, part of the capped stock is sold and the rest is kept
StockConservedWitness ==
  /\ pcK = "next"
  /\ ks + ka > M
  /\ 0 < kd /\ kd < M
  /\ SalesIncome(reward, ks, ka) = p * kd
  /\ ns = M - kd /\ ns > 0

\* ========================================================== claims, SpecVI
\* r[s,a] + gamma * sum over s' of p(s'|s,a) * V(s'), as a numerator over
\* den * GammaDen * Vv.dn
BellmanQ(Vv, s, a) ==
  avgR[<<s, a>>] * GammaDen * Vv.dn
    + GammaNum * SumRange([n \in 0..M |-> K[<<s, n, a>>] * Vv.num[n]], 0, M)

\* K and avgR hold what the builder's loops accumulated from pdem
TablesAsBuilt ==
  /\ pcK = "done"
  /\ \A s \in 0..M, a \in 0..M, n \in 0..M : K[<<s, n, a>>] = MassTo(s, a, n)
  /\ \A s \in 0..M, a \in 0..M :
       avgR[<<s, a>>] =
         SumRange([d \in 0..M |-> pdem[d] * BuilderReward(s, a, d, M)], 0, M)

IsValueOf(Vv, PiArr) ==
  \A s \in 0..M :
    GammaDen * den * Vv.num[s] =
      GammaDen * Vv.dn * avgR[<<s, PiArr[s]>>]
        + GammaNum * SumRange([n \in 0..M |-> K[<<s, n, PiArr[s]>>] * Vv.num[n]], 0, M)

\* C8: PolicyIteration returns (Pi, V, nIt) where V is the value function of the
\* returned Pi and nIt the number of evaluate-and-improve rounds run, and it
\* leaves its loop only when the improved policy equals the policy it was
\* computed from.
PolicyIterationContract ==
  pcPI = "return" =>
    /\ IsValueOf(V, Pi)
    /\ nIt = rounds
    /\ newPi = Pi
    /\ newPi = Improve(K, avgR, EvaluatePolicy(K, avgR, Pi, M, den), M, den).Pi

\* ========================================================== claims, SpecQL
\* C9: when the line "After T= Landmarks[k+1] iterations" is printed, exactly
\* Landmarks[k+1] environment steps and Q-updates have been performed on the one
\* trajectory, the visit counts N[s,a] total Landmarks[k+1], and the policy
\* printed is the greedy policy of the Q table of that moment.
ReportAfterLandmarkSteps ==
  pcQ = "printed" =>
    LET r == report[Len(report)]
    IN /\ curr_step + 1 = r.T
       /\ nUpd = r.T
       /\ SumN(N, M) = r.T
       /\ r.Pi = [s \in 0..M |-> ArgMax(Q[s], M)]

====
